---------------------------- MODULE Spec2Model ----------------------------
(***************************************************************************)
(* Crash_Detector, enhanced_tracker.py: one polling cycle                  *)
(* (update_tracing_data) fetches three metrics, computes the USD/JPY       *)
(* volatility against the persisted history, classifies every metric,     *)
(* scores the set, asks for AI insights and persists the snapshot to       *)
(* data.json and to historical_data.json (last 30 entries).                *)
(*                                                                         *)
(* Numbers: a float is an integer count of 1e-5 (150.0 is 15000000); a     *)
(* score is an integer count of tenths.  Optional[float] is <<>> (None) or *)
(* <<v>>.  A string the code builds by formatting is a tuple <<format, n>> *)
(* holding the rounded number; an exception message is a sequence of its   *)
(* substrings, and `"x" in str(e)` is membership among them.               *)
(***************************************************************************)
EXTENDS Integers, Sequences, FiniteSets, TLC

VARIABLES
    env,            \* what the providers, the model API and the disk can answer in this run
    now,            \* the clock read by datetime.now()
    dataFile,       \* data.json
    historyFile,    \* historical_data.json
    pc,             \* per invocation: its position in update_tracing_data
    cfg,            \* per invocation: API_KEY and OPENROUTER_API_KEY as read at import
    history,        \* per invocation: the local list `history`
    loaded,         \* per invocation: outcome logged for the history load
    attempt,        \* per invocation: the loop variable of fetch_fx_rate
    usd_jpy,        \* per invocation: Optional[float]
    usd_cnh,
    treasury_10y,
    jpy_volatility,
    final_data,     \* per invocation: the assembled snapshot
    aiSeen,         \* per invocation: the response generate_ai_insights received
    wrote,          \* per invocation: outcome logged for the data.json write
    saved,          \* per invocation: outcome logged for the history save
    requests,       \* per invocation: HTTP requests issued so far
    saveOrder,      \* invocations in the order their history saves succeeded
    loadSeen,       \* per invocation: Len(saveOrder) when it loaded the history
    overlapped,     \* some invocation began while another was still running
    call,           \* argument of a pure function under test
    result          \* its return value

vars == <<env, now, dataFile, historyFile, pc, cfg, history, loaded, attempt, usd_jpy,
          usd_cnh, treasury_10y, jpy_volatility, final_data, aiSeen, wrote,
          saved, requests, saveOrder, loadSeen, overlapped, call, result>>

-----------------------------------------------------------------------------
(* Configuration, lines 14-23, and the literals of the ladders.            *)

JPY_STRESS_THRESHOLD == 15500000
JPY_CRITICAL_THRESHOLD == 16000000
CNH_STRESS_THRESHOLD == 730000
CNH_CRITICAL_THRESHOLD == 750000
MOVE_PROXY_HIGH == 6000000
MOVE_PROXY_CRITICAL == 8000000
JPY_VOLATILITY_THRESHOLD == 200000
JPY_RISING_THRESHOLD == 14500000
CNH_RISING_THRESHOLD == 715000
MOVE_RISING_THRESHOLD == 4000000
YIELD_CRITICAL_THRESHOLD == 550000
YIELD_STRESS_THRESHOLD == 500000
YIELD_RISING_THRESHOLD == 450000
MOVE_PROXY_PLACEHOLDER == 4500000
MAX_RETRIES == 3
HISTORY_KEEP == 30
TARGET_INSTANT == 200
INSTANTS_PER_DAY == 4

JPY_NAME == "USD/JPY Exchange Rate"
CNH_NAME == "USD/CNH (Offshore Yuan) Value"
MOVE_NAME == "MOVE Index Volatility (Proxy)"
YIELD_NAME == "10-Year Treasury Yield"

\* Bounds of the model.
MaxRuns == 2        \* invocations of update_tracing_data
MaxMetrics == 4     \* length of a metrics list handed to the scorer under test

Procs == 1..MaxRuns

-----------------------------------------------------------------------------
(* Python values.                                                          *)

None == <<>>
Some(v) == <<v>>
\* bool(x) of an Optional[float]: None and 0.0 are both false.
Truthy(x) == x # None /\ x[1] # 0
Abs(x) == IF x < 0 THEN -x ELSE x
Min(a, b) == IF a < b THEN a ELSE b
Max(a, b) == IF a < b THEN b ELSE a

\* The nearest multiple of step, ties to the even multiple.
RoundTo(v, step) ==
    LET q == v \div step
        r == v % step
    IN  IF 2 * r < step THEN q * step
        ELSE IF 2 * r > step THEN (q + 1) * step
        ELSE IF q % 2 = 0 THEN q * step ELSE (q + 1) * step

DATA_ERROR == <<"DATA ERROR">>
NOT_AVAILABLE == <<"N/A">>
\* f"{v:.4f}", f"{v:.2f}" and f"{v:.2f}%"
Format4(v) == <<".4f", RoundTo(v, 10)>>
Format2(v) == <<".2f", RoundTo(v, 1000)>>
Format2Pct(v) == <<".2f%", RoundTo(v, 1000)>>
\* float(s): the number, or <<>> where float raises ValueError.
ParseFloat(s) ==
    IF Len(s) = 2 /\ s[1] \in {".4f", ".2f"} THEN Some(s[2]) ELSE None

Contains(msg, part) == \E i \in 1..Len(msg) : msg[i] = part


-----------------------------------------------------------------------------
(* calculate_volatility, lines 130-150.                                    *)

\* The inner loop over one entry's metrics: `yesterday` after it, given its
\* value y before it.  A match that float() rejects is skipped (continue).
RECURSIVE ScanMetrics(_, _, _, _)
ScanMetrics(metrics, k, metric_name, y) ==
    IF k > Len(metrics) THEN y
    ELSE LET metric == metrics[k]
         IN  IF metric.name = metric_name /\ metric.value # DATA_ERROR
                THEN IF ParseFloat(metric.value) # None
                        THEN ParseFloat(metric.value)
                        ELSE ScanMetrics(metrics, k + 1, metric_name, y)
                ELSE ScanMetrics(metrics, k + 1, metric_name, y)

\* The outer loop over reversed(history), left by `if yesterday: break`.
RECURSIVE ScanHistory(_, _, _, _)
ScanHistory(hist, i, metric_name, y) ==
    IF i = 0 THEN y
    ELSE LET y2 == ScanMetrics(hist[i].metrics, 1, metric_name, y)
         IN  IF Truthy(y2) THEN y2
             ELSE ScanHistory(hist, i - 1, metric_name, y2)

calculate_volatility(current_value, hist, metric_name) ==
    IF hist = <<>> \/ current_value = None THEN None
    ELSE LET yesterday == ScanHistory(hist, Len(hist), metric_name, None)
         IN  IF Truthy(yesterday)
                THEN Some(Abs(current_value[1] - yesterday[1]))
                ELSE None

-----------------------------------------------------------------------------
(* determine_signal, lines 153-197.                                        *)

\* A ladder that is off by the boundary: > where the code has >=.
JpyLadder_strict(v, volatility) ==
    IF Truthy(volatility) /\ volatility[1] >= JPY_VOLATILITY_THRESHOLD
          /\ v > JPY_CRITICAL_THRESHOLD THEN "CRITICAL SHOCK"
    ELSE IF Truthy(volatility) /\ volatility[1] >= JPY_VOLATILITY_THRESHOLD
          /\ v > JPY_STRESS_THRESHOLD THEN "HIGH STRESS + HIGH VOLATILITY"
    ELSE IF v > JPY_CRITICAL_THRESHOLD THEN "CRITICAL SHOCK"
    ELSE IF v > JPY_STRESS_THRESHOLD THEN "HIGH STRESS"
    ELSE IF v > JPY_RISING_THRESHOLD THEN "RISING STRESS"
    ELSE "NORMAL"

\* lines 158-171, then the fall through to line 197
JpyLadder(v, volatility) ==
    IF Truthy(volatility) /\ volatility[1] >= JPY_VOLATILITY_THRESHOLD
          /\ v >= JPY_CRITICAL_THRESHOLD THEN "CRITICAL SHOCK"
    ELSE IF Truthy(volatility) /\ volatility[1] >= JPY_VOLATILITY_THRESHOLD
          /\ v >= JPY_STRESS_THRESHOLD THEN "HIGH STRESS + HIGH VOLATILITY"
    ELSE IF v >= JPY_CRITICAL_THRESHOLD THEN "CRITICAL SHOCK"
    ELSE IF v >= JPY_STRESS_THRESHOLD THEN "HIGH STRESS"
    ELSE IF v > JPY_RISING_THRESHOLD THEN "RISING STRESS"
    ELSE "NORMAL"

\* lines 173-179
CnhLadder(v) ==
    IF v >= CNH_CRITICAL_THRESHOLD THEN "CRITICAL SHOCK"
    ELSE IF v >= CNH_STRESS_THRESHOLD THEN "HIGH STRESS"
    ELSE IF v > CNH_RISING_THRESHOLD THEN "RISING STRESS"
    ELSE "NORMAL"

\* lines 181-187
MoveLadder(v) ==
    IF v >= MOVE_PROXY_CRITICAL THEN "CRITICAL SHOCK"
    ELSE IF v >= MOVE_PROXY_HIGH THEN "HIGH STRESS"
    ELSE IF v > MOVE_RISING_THRESHOLD THEN "RISING STRESS"
    ELSE "NORMAL"

\* lines 189-195
YieldLadder(v) ==
    IF v >= YIELD_CRITICAL_THRESHOLD THEN "CRITICAL SHOCK"
    ELSE IF v >= YIELD_STRESS_THRESHOLD THEN "HIGH STRESS"
    ELSE IF v >= YIELD_RISING_THRESHOLD THEN "RISING STRESS"
    ELSE "NORMAL"

determine_signal(metric_name, value, volatility) ==
    IF value = None THEN "DATA ERROR"
    ELSE IF metric_name = JPY_NAME THEN JpyLadder(value[1], volatility)
    ELSE IF metric_name = CNH_NAME THEN CnhLadder(value[1])
    ELSE IF metric_name = MOVE_NAME THEN MoveLadder(value[1])
    ELSE IF metric_name = YIELD_NAME THEN YieldLadder(value[1])
    ELSE "NORMAL"

-----------------------------------------------------------------------------
(* calculate_composite_risk_score, lines 200-230.                          *)

\* weights.get(signal, 0)
SignalWeight(signal) ==
    CASE signal = "CRITICAL SHOCK" -> 100
      [] signal = "HIGH STRESS + HIGH VOLATILITY" -> 80
      [] signal = "HIGH STRESS" -> 60
      [] signal = "RISING STRESS" -> 30
      [] OTHER -> 0

\* A divisor that counts every metric, the failed ones too.
CountsTowardDivisor_all(signal) == TRUE

\* total_weight += 1 if signal != "DATA ERROR" else 0
CountsTowardDivisor(signal) == signal # "DATA ERROR"

RECURSIVE SumScore(_, _)
SumScore(metrics, k) ==
    IF k = 0 THEN 0 ELSE SumScore(metrics, k - 1) + SignalWeight(metrics[k].signal)

RECURSIVE TotalWeight(_, _)
TotalWeight(metrics, k) ==
    IF k = 0 THEN 0
    ELSE TotalWeight(metrics, k - 1)
            + (IF CountsTowardDivisor(metrics[k].signal) THEN 1 ELSE 0)

\* round(score / total_weight, 1), in tenths: ties go to the even tenth.
RoundedScore(score, total_weight) ==
    LET q == (10 * score) \div total_weight
        r == (10 * score) % total_weight
    IN  IF 2 * r < total_weight THEN q
        ELSE IF 2 * r > total_weight THEN q + 1
        ELSE IF q % 2 = 0 THEN q ELSE q + 1

calculate_composite_risk_score(metrics) ==
    LET score == SumScore(metrics, Len(metrics))
        total_weight == TotalWeight(metrics, Len(metrics))
    IN  IF total_weight = 0
           THEN [score |-> 0, level |-> "UNKNOWN", color |-> "#6c757d"]
        ELSE IF score >= 70 * total_weight
           THEN [score |-> RoundedScore(score, total_weight),
                 level |-> "CRITICAL", color |-> "#dc3545"]
        ELSE IF score >= 45 * total_weight
           THEN [score |-> RoundedScore(score, total_weight),
                 level |-> "ELEVATED", color |-> "#ffc107"]
        ELSE IF score >= 20 * total_weight
           THEN [score |-> RoundedScore(score, total_weight),
                 level |-> "MODERATE", color |-> "#fd7e14"]
        ELSE [score |-> RoundedScore(score, total_weight),
              level |-> "LOW", color |-> "#28a745"]

-----------------------------------------------------------------------------
(* fetch_fx_rate, lines 64-103, and fetch_treasury_yield_10y, lines 29-53. *)
(* A response is what one requests.get meets:                              *)
(*   rate     a payload whose rate field float() accepts, v its value      *)
(*   badrate  a payload whose rate field float() rejects (ValueError)      *)
(*   note     a payload with the 'Note' key (rate limit)                   *)
(*   errmsg   a payload with the 'Error Message' key                       *)
(*   nokey    a payload without the rate key (or without 'data' entries)   *)
(*   net      a connection error or timeout (RequestException)             *)
(*   http     an error status, raised by raise_for_status (HTTPError)      *)
(*   nonjson  a body response.json() rejects (requests' JSONDecodeError,   *)
(*            a RequestException since requests 2.27)                      *)

Rate(v) == [kind |-> "rate", v |-> v]
Fault(k) == [kind |-> k, v |-> 0]
IsRequestException(resp) == resp.kind \in {"net", "http", "nonjson"}

\* One pass of the retry loop: the function returns a value, raises, or
\* goes round again; after the last pass the loop ends and None is returned.
fetch_fx_rate(resp, att) ==
    IF resp.kind = "rate" THEN [next |-> "return", value |-> Some(resp.v)]
    ELSE IF resp.kind \in {"note", "errmsg", "nokey"}
        THEN [next |-> "return", value |-> None]
    ELSE IF IsRequestException(resp)
        THEN IF att < MAX_RETRIES - 1
                THEN [next |-> "retry", value |-> None]
                ELSE [next |-> "return", value |-> None]
    ELSE [next |-> "raise", value |-> None]

\* except Exception: every failure, the ValueError of float() too, is None.
fetch_treasury_yield_10y(resp) ==
    IF resp.kind = "rate" THEN Some(resp.v) ELSE None

-----------------------------------------------------------------------------
(* load_historical_data, lines 106-115; save_historical_data, 118-127.     *)
(* A file is missing, corrupt (a write that failed part-way left text      *)
(* json.load rejects) or ok with its document.                             *)

MissingFile == [state |-> "missing", doc |-> <<>>]
CorruptFile == [state |-> "corrupt", doc |-> <<>>]
FileOf(doc) == [state |-> "ok", doc |-> doc]

\* A load that never finds the file (a wrong path).
load_historical_data_nothing(file, readable) == <<>>

load_historical_data(file, readable) ==
    IF file.state = "missing" THEN <<>>
    ELSE IF file.state = "corrupt" \/ ~readable THEN <<>>
    ELSE file.doc

\* history[:30]: the first entries kept, not the last.
LastEntries_head(hist) == SubSeq(hist, 1, Min(Len(hist), HISTORY_KEEP))

\* history[-30:]
LastEntries(hist) ==
    SubSeq(hist, Max(1, Len(hist) - HISTORY_KEEP + 1), Len(hist))

\* open(..., 'w') then json.dump: ok, or an OSError at open (the file is as
\* it was) or during the dump (the file is truncated).
WriteFile(file, doc, outcome) ==
    IF outcome = "ok" THEN FileOf(doc)
    ELSE IF outcome = "open_fails" THEN file
    ELSE CorruptFile

save_historical_data(file, hist, outcome) ==
    WriteFile(file, LastEntries(hist), outcome)

-----------------------------------------------------------------------------
(* generate_ai_insights, lines 233-323.                                    *)
(* A response has a status ("timeout": none arrived), a body (html: not    *)
(* JSON; no_choices: JSON without 'choices'; chat: a completion) and the   *)
(* completion's content:                                                   *)
(*   object        {"stock_picks": "...", "tasi_opportunities": "..."}     *)
(*   empty_object  {}                                                      *)
(*   prose         text without braces                                     *)
(*   bad_object    {not json}                                              *)
(*   no_value      {"stock_picks": }                                       *)
(*   two_objects   {"a": 1} and {"b": 2}  (the greedy match spans both)    *)

AiResponse(status, body, content) ==
    [status |-> status, body |-> body, content |-> content]
NoResponse == AiResponse("none", "none", "none")

MISSING_KEY_TEXT == <<"AI Analysis Unavailable (Missing API Key)">>
AUTH_TEXT == <<"AI Configuration Error: Invalid API Key (401)">>
RATE_LIMIT_TEXT == <<"AI Busy: Rate Limit Exceeded (429)">>
PARSING_TEXT == <<"AI Error: Response Parsing Failed">>
DATA_MISSING_TEXT == <<"Analysis Data Missing">>

\* str(e) of the exception the try block raises, <<>> when it raises none.
AiError(resp) ==
    IF resp.status = "timeout"
       THEN <<"HTTPSConnectionPool(host='openrouter.ai', port=", "443",
              "): Read timed out. (read timeout=30)">>
    ELSE IF resp.status = "401"
       THEN <<"401", " Client Error: Unauthorized for url">>
    ELSE IF resp.status = "429"
       THEN <<"429", " Client Error: Too Many Requests for url">>
    ELSE IF resp.status = "500"
       THEN <<"500", " Server Error: Internal Server Error for url">>
    ELSE IF resp.body = "html"
       THEN <<"Expecting value", ": line 1 column 1 (char 0)">>
    ELSE IF resp.body = "no_choices" THEN <<"'choices'">>
    ELSE IF resp.content = "prose"
       THEN <<"Could not extract ", "JSON", " from AI response">>
    ELSE IF resp.content = "bad_object"
       THEN <<"Expecting property name enclosed in double quotes",
              ": line 1 column 2 (char 1)">>
    ELSE IF resp.content = "no_value"
       THEN <<"Expecting value", ": line 1 column 17 (char 16)">>
    ELSE IF resp.content = "two_objects"
       THEN <<"Extra data", ": line 1 column 9 (char 8)">>
    ELSE <<>>

\* The except block's choice of ui_error; error_str[:30] is the first part.
UiError(error_str) ==
    IF Contains(error_str, "401") THEN AUTH_TEXT
    ELSE IF Contains(error_str, "429") THEN RATE_LIMIT_TEXT
    ELSE IF Contains(error_str, "Expecting value") \/ Contains(error_str, "JSON")
        THEN PARSING_TEXT
    ELSE <<"AI Analysis Failed: ", error_str[1], "...">>

generate_ai_insights(openrouter_key, resp) ==
    IF ~openrouter_key
       THEN [stock_picks |-> MISSING_KEY_TEXT, tasi_opportunities |-> MISSING_KEY_TEXT]
    ELSE IF AiError(resp) # <<>>
       THEN [stock_picks |-> UiError(AiError(resp)),
             tasi_opportunities |-> UiError(AiError(resp))]
    ELSE IF resp.content = "object"
       THEN [stock_picks |-> <<"<ul>stock picks</ul>">>,
             tasi_opportunities |-> <<"<ul>tasi opportunities</ul>">>]
    ELSE [stock_picks |-> DATA_MISSING_TEXT, tasi_opportunities |-> DATA_MISSING_TEXT]

-----------------------------------------------------------------------------
(* update_tracing_data, lines 326-395: the snapshot.                       *)

\* new_metrics, lines 345-367
BuildMetrics(jpy, cnh, move, tnx, vol) ==
    << [name |-> JPY_NAME,
        value |-> IF Truthy(jpy) THEN Format4(jpy[1]) ELSE DATA_ERROR,
        signal |-> determine_signal(JPY_NAME, jpy, vol),
        volatility_24h |-> IF Truthy(vol) THEN Format2(vol[1]) ELSE NOT_AVAILABLE],
       [name |-> CNH_NAME,
        value |-> IF Truthy(cnh) THEN Format4(cnh[1]) ELSE DATA_ERROR,
        signal |-> determine_signal(CNH_NAME, cnh, None)],
       [name |-> MOVE_NAME,
        value |-> IF Truthy(move) THEN Format2(move[1]) ELSE DATA_ERROR,
        signal |-> determine_signal(MOVE_NAME, move, None)],
       [name |-> YIELD_NAME,
        value |-> IF Truthy(tnx) THEN Format2Pct(tnx[1]) ELSE DATA_ERROR,
        signal |-> determine_signal(YIELD_NAME, tnx, None)] >>

\* jpy_volatility, line 342
CycleVolatility(jpy, hist) ==
    IF Truthy(jpy) THEN calculate_volatility(jpy, hist, JPY_NAME) ELSE None

\* final_data, lines 376-383
Snapshot(t, metrics, insights) ==
    [last_update |-> t,
     target_date |-> "2026-11-28",
     days_remaining |-> (TARGET_INSTANT - t) \div INSTANTS_PER_DAY,
     risk_assessment |-> calculate_composite_risk_score(metrics),
     metrics |-> metrics,
     ai_insights |-> insights]

NoSnapshot ==
    [last_update |-> 0, target_date |-> "", days_remaining |-> 0,
     risk_assessment |-> [score |-> 0, level |-> "UNKNOWN", color |-> "#6c757d"],
     metrics |-> <<>>,
     ai_insights |-> [stock_picks |-> <<>>, tasi_opportunities |-> <<>>]]

-----------------------------------------------------------------------------
(* The runs explored.  An environment fixes what each collaborator can     *)
(* answer during a run, so that each kind of failure is explored in full   *)
(* against nominal answers of the others.  lock: the scheduler starts an   *)
(* invocation only when no other is running (the cron trigger); without    *)
(* it invocations may overlap.  lens: the lengths the persisted history    *)
(* can have at the start, -1 for no file.                                  *)

NominalJpy == {Rate(15000000)}
NominalCnh == {Rate(720000)}
NominalYield == {Rate(433000)}
NominalAi == {AiResponse("200", "chat", "object")}

Environment(name, lock, lens, api, orkey, jpy, cnh, tnx, ai, read, write, save) ==
    [name |-> name, lock |-> lock, lens |-> lens, api |-> api, orkey |-> orkey,
     jpy |-> jpy, cnh |-> cnh, tnx |-> tnx, ai |-> ai,
     read |-> read, write |-> write, save |-> save]

Environments ==
    { Environment("usd_jpy", TRUE, {0, 1, 2, HISTORY_KEEP}, {TRUE}, {FALSE},
                  { Rate(0), Rate(3), Rate(15400000), Rate(15700000), Rate(16100000),
                    Fault("note"), Fault("errmsg"), Fault("nokey"), Fault("net"),
                    Fault("http"), Fault("nonjson"), Fault("badrate") },
                  NominalCnh, NominalYield, NominalAi, {TRUE}, {"ok"}, {"ok"}),
      Environment("feeds", TRUE, {0, 2}, {TRUE}, {FALSE},
                  NominalJpy,
                  { Rate(0), Rate(740000), Fault("errmsg"), Fault("net"), Fault("badrate") },
                  { Rate(0), Rate(510000), Fault("nokey"), Fault("net"),
                    Fault("nonjson"), Fault("badrate") },
                  NominalAi, {TRUE}, {"ok"}, {"ok"}),
      Environment("insights", TRUE, {0, 2}, {TRUE, FALSE}, {TRUE, FALSE},
                  NominalJpy, NominalCnh, NominalYield,
                  { AiResponse("timeout", "none", "none"),
                    AiResponse("401", "none", "none"),
                    AiResponse("429", "none", "none"),
                    AiResponse("500", "none", "none"),
                    AiResponse("200", "html", "none"),
                    AiResponse("200", "no_choices", "none"),
                    AiResponse("200", "chat", "object"),
                    AiResponse("200", "chat", "empty_object"),
                    AiResponse("200", "chat", "prose"),
                    AiResponse("200", "chat", "bad_object"),
                    AiResponse("200", "chat", "no_value"),
                    AiResponse("200", "chat", "two_objects") },
                  {TRUE}, {"ok"}, {"ok"}),
      Environment("disk", TRUE, {-1, 0, HISTORY_KEEP - 1, HISTORY_KEEP}, {TRUE}, {FALSE},
                  NominalJpy, NominalCnh, NominalYield, NominalAi,
                  {TRUE, FALSE}, {"ok", "open_fails", "dump_fails"},
                  {"ok", "open_fails", "dump_fails"}),
      Environment("overlap", FALSE, {0, 2, HISTORY_KEEP}, {TRUE, FALSE}, {FALSE},
                  NominalJpy, NominalCnh, NominalYield, NominalAi,
                  {TRUE}, {"ok"}, {"ok", "open_fails", "dump_fails"}) }

\* The history the program has persisted after n cycles in which USD/JPY
\* alternated between 150.0 and 152.0 and nothing failed (no OpenRouter key).
BaseJpy(n) == IF n % 2 = 1 THEN 15000000 ELSE 15200000

BaseSnapshot(n, hist) ==
    Snapshot(n,
             BuildMetrics(Some(BaseJpy(n)), Some(720000),
                          Some(MOVE_PROXY_PLACEHOLDER), Some(433000),
                          CycleVolatility(Some(BaseJpy(n)), hist)),
             generate_ai_insights(FALSE, NoResponse))

RECURSIVE GrowHistory(_, _)
GrowHistory(hist, n) ==
    IF Len(hist) >= n THEN hist
    ELSE GrowHistory(Append(hist, BaseSnapshot(Len(hist) + 1, hist)), n)

BaseHistory(n) == GrowHistory(<<>>, n)

InitialHistory(n) == IF n < 0 THEN MissingFile ELSE FileOf(BaseHistory(n))
InitialData(n) == IF n <= 0 THEN MissingFile ELSE FileOf(BaseHistory(n)[n])

\* No pure function is under test during a run of the cycle.
NoCall == [fn |-> "none", args |-> <<>>]

Running(p) == pc[p] \notin {"idle", "aborted", "raised", "done"}

Init ==
    /\ env \in Environments
    /\ \E n \in env.lens :
          /\ historyFile = InitialHistory(n)
          /\ dataFile = InitialData(n)
    /\ now = HISTORY_KEEP + 1
    /\ pc = [p \in Procs |-> "idle"]
    /\ cfg = [p \in Procs |-> [api |-> FALSE, openrouter |-> FALSE]]
    /\ history = [p \in Procs |-> <<>>]
    /\ loaded = [p \in Procs |-> "no"]
    /\ attempt = [p \in Procs |-> 0]
    /\ usd_jpy = [p \in Procs |-> None]
    /\ usd_cnh = [p \in Procs |-> None]
    /\ treasury_10y = [p \in Procs |-> None]
    /\ jpy_volatility = [p \in Procs |-> None]
    /\ final_data = [p \in Procs |-> NoSnapshot]
    /\ aiSeen = [p \in Procs |-> NoResponse]
    /\ wrote = [p \in Procs |-> "no"]
    /\ saved = [p \in Procs |-> "no"]
    /\ requests = [p \in Procs |-> 0]
    /\ saveOrder = <<>>
    /\ loadSeen = [p \in Procs |-> 0]
    /\ overlapped = FALSE
    /\ call = NoCall
    /\ result = <<>>

-----------------------------------------------------------------------------
(* update_tracing_data, lines 326-395: its steps.  Each step holds at most *)
(* one interaction with a file or a collaborator.                          *)

\* The check left out.
AfterKeyCheck_none(api_key) == "load"

\* lines 328-330: `if not API_KEY: return`
AfterKeyCheck(api_key) == IF ~api_key THEN "aborted" ELSE "load"

\* The interpreter imports the module (lines 9, 12) and enters the function.
Begin(p) ==
    /\ pc[p] = "idle"
    /\ \A q \in Procs : q < p => pc[q] # "idle"
    /\ env.lock => \A q \in Procs : ~Running(q)
    /\ \E api \in env.api, orkey \in env.orkey :
          /\ cfg' = [cfg EXCEPT ![p] = [api |-> api, openrouter |-> orkey]]
          /\ pc' = [pc EXCEPT ![p] = AfterKeyCheck(api)]
    /\ overlapped' = (overlapped \/ \E q \in Procs : Running(q))
    /\ UNCHANGED <<env, now, dataFile, historyFile, history, loaded, attempt, usd_jpy,
                   usd_cnh, treasury_10y, jpy_volatility, final_data, aiSeen, wrote,
                   saved, requests, saveOrder, loadSeen, call, result>>

\* line 333
LoadHistory(p) ==
    /\ pc[p] = "load"
    /\ \E readable \in env.read :
          /\ history' = [history EXCEPT ![p] = load_historical_data(historyFile, readable)]
          /\ loaded' = [loaded EXCEPT ![p] =
                            IF historyFile.state = "missing"
                                  \/ (historyFile.state = "ok" /\ readable)
                               THEN "ok" ELSE "failed"]
    /\ loadSeen' = [loadSeen EXCEPT ![p] = Len(saveOrder)]
    /\ pc' = [pc EXCEPT ![p] = "fetch_jpy"]
    /\ UNCHANGED <<env, now, dataFile, historyFile, cfg, attempt, usd_jpy, usd_cnh,
                   treasury_10y, jpy_volatility, final_data, aiSeen, wrote, saved,
                   requests, saveOrder, overlapped, call, result>>

\* Where a pass of fetch_fx_rate leaves the caller: in the loop, dead with
\* the exception that left the function, or at the next statement.
AfterFetch(next, here, there) ==
    IF next = "retry" THEN here ELSE IF next = "raise" THEN "raised" ELSE there

\* line 337: one pass of fetch_fx_rate('USDJPY')
FetchJpy(p) ==
    /\ pc[p] = "fetch_jpy"
    /\ \E resp \in env.jpy :
          LET o == fetch_fx_rate(resp, attempt[p])
          IN  /\ usd_jpy' = [usd_jpy EXCEPT ![p] = o.value]
              /\ attempt' = [attempt EXCEPT ![p] = IF o.next = "retry" THEN @ + 1 ELSE 0]
              /\ pc' = [pc EXCEPT ![p] = AfterFetch(o.next, "fetch_jpy", "fetch_cnh")]
    /\ requests' = [requests EXCEPT ![p] = @ + 1]
    /\ UNCHANGED <<env, now, dataFile, historyFile, cfg, history, loaded, usd_cnh,
                   treasury_10y, jpy_volatility, final_data, aiSeen, wrote, saved,
                   saveOrder, loadSeen, overlapped, call, result>>

\* line 338: one pass of fetch_fx_rate('USDCNH')
FetchCnh(p) ==
    /\ pc[p] = "fetch_cnh"
    /\ \E resp \in env.cnh :
          LET o == fetch_fx_rate(resp, attempt[p])
          IN  /\ usd_cnh' = [usd_cnh EXCEPT ![p] = o.value]
              /\ attempt' = [attempt EXCEPT ![p] = IF o.next = "retry" THEN @ + 1 ELSE 0]
              /\ pc' = [pc EXCEPT ![p] = AfterFetch(o.next, "fetch_cnh", "fetch_yield")]
    /\ requests' = [requests EXCEPT ![p] = @ + 1]
    /\ UNCHANGED <<env, now, dataFile, historyFile, cfg, history, loaded, usd_jpy,
                   treasury_10y, jpy_volatility, final_data, aiSeen, wrote, saved,
                   saveOrder, loadSeen, overlapped, call, result>>

\* line 339
FetchYield(p) ==
    /\ pc[p] = "fetch_yield"
    /\ \E resp \in env.tnx :
          treasury_10y' = [treasury_10y EXCEPT ![p] = fetch_treasury_yield_10y(resp)]
    /\ requests' = [requests EXCEPT ![p] = @ + 1]
    /\ pc' = [pc EXCEPT ![p] = "analyse"]
    /\ UNCHANGED <<env, now, dataFile, historyFile, cfg, history, loaded, attempt,
                   usd_jpy, usd_cnh, jpy_volatility, final_data, aiSeen, wrote, saved,
                   saveOrder, loadSeen, overlapped, call, result>>

\* lines 341-383: volatility, metrics, score, insights, final_data.  The
\* request to the model API is issued only with an OpenRouter key.
Analyse(p) ==
    /\ pc[p] = "analyse"
    /\ \E resp \in env.ai :
          LET vol == CycleVolatility(usd_jpy[p], history[p])
              new_metrics == BuildMetrics(usd_jpy[p], usd_cnh[p],
                                          Some(MOVE_PROXY_PLACEHOLDER),
                                          treasury_10y[p], vol)
              seen == IF cfg[p].openrouter THEN resp ELSE NoResponse
          IN  /\ jpy_volatility' = [jpy_volatility EXCEPT ![p] = vol]
              /\ aiSeen' = [aiSeen EXCEPT ![p] = seen]
              /\ final_data' = [final_data EXCEPT ![p] =
                    Snapshot(now, new_metrics,
                             generate_ai_insights(cfg[p].openrouter, seen))]
    /\ requests' = [requests EXCEPT ![p] = IF cfg[p].openrouter THEN @ + 1 ELSE @]
    /\ now' = now + 1
    /\ pc' = [pc EXCEPT ![p] = "write"]
    /\ UNCHANGED <<env, dataFile, historyFile, cfg, history, loaded, attempt, usd_jpy,
                   usd_cnh, treasury_10y, wrote, saved, saveOrder, loadSeen,
                   overlapped, call, result>>

\* A handler that does not catch the error of the write.
AfterWrite_uncaught(outcome) == IF outcome = "ok" THEN "save" ELSE "raised"

\* lines 386-391: `except IOError` logs, and the function goes on.
AfterWrite(outcome) == "save"

WriteCurrent(p) ==
    /\ pc[p] = "write"
    /\ \E outcome \in env.write :
          /\ dataFile' = WriteFile(dataFile, final_data[p], outcome)
          /\ wrote' = [wrote EXCEPT ![p] = IF outcome = "ok" THEN "ok" ELSE "failed"]
          /\ pc' = [pc EXCEPT ![p] = AfterWrite(outcome)]
    /\ UNCHANGED <<env, now, historyFile, cfg, history, loaded, attempt, usd_jpy,
                   usd_cnh, treasury_10y, jpy_volatility, final_data, aiSeen, saved,
                   requests, saveOrder, loadSeen, overlapped, call, result>>

\* lines 394-395: history.append(final_data); save_historical_data(history)
UpdateHistory(p) ==
    /\ pc[p] = "save"
    /\ history' = [history EXCEPT ![p] = Append(@, final_data[p])]
    /\ \E outcome \in env.save :
          /\ historyFile' = save_historical_data(historyFile, history'[p], outcome)
          /\ saved' = [saved EXCEPT ![p] = IF outcome = "ok" THEN "ok" ELSE "failed"]
          /\ saveOrder' = IF outcome = "ok" THEN Append(saveOrder, p) ELSE saveOrder
    /\ pc' = [pc EXCEPT ![p] = "done"]
    /\ UNCHANGED <<env, now, dataFile, cfg, loaded, attempt, usd_jpy, usd_cnh,
                   treasury_10y, jpy_volatility, final_data, aiSeen, wrote, requests,
                   loadSeen, overlapped, call, result>>

Next ==
    \E p \in Procs :
        \/ Begin(p)
        \/ LoadHistory(p)
        \/ FetchJpy(p)
        \/ FetchCnh(p)
        \/ FetchYield(p)
        \/ Analyse(p)
        \/ WriteCurrent(p)
        \/ UpdateHistory(p)

Spec == Init /\ [][Next]_vars

-----------------------------------------------------------------------------
(* The classifier and the scorer on their own: the argument is drawn, the  *)
(* function is applied.                                                    *)

SignalNames == {JPY_NAME, CNH_NAME, MOVE_NAME, YIELD_NAME, "Unknown Metric"}
SignalValues ==
    { 0, 14500000, 14500001, 15499999, 15500000, 15990000, 15999999, 16000000,
      16500000, 715000, 715001, 729999, 730000, 750000, 4000000, 4000001,
      6000000, 8000000, 449999, 450000, 500000, 550000 }
SignalVolatilities == {0, 199999, 200000, 350000}
Signals == {"CRITICAL SHOCK", "HIGH STRESS + HIGH VOLATILITY", "HIGH STRESS",
            "RISING STRESS", "NORMAL", "DATA ERROR"}

SignalCalls ==
    { [fn |-> "determine_signal", args |-> <<n, v, s>>] :
        n \in SignalNames,
        v \in {None} \cup {Some(x) : x \in SignalValues},
        s \in {None} \cup {Some(x) : x \in SignalVolatilities} }

ScoreCalls ==
    { [fn |-> "calculate_composite_risk_score",
       args |-> << [i \in 1..Len(f) |-> [name |-> JPY_NAME, signal |-> f[i]]] >>] :
        f \in UNION { [1..n -> Signals] : n \in 0..MaxMetrics } }

InitUnit ==
    /\ call \in SignalCalls \cup ScoreCalls
    /\ result = <<>>
    /\ env = [name |-> "unit"]
    /\ now = 0
    /\ dataFile = MissingFile
    /\ historyFile = MissingFile
    /\ pc = [p \in Procs |-> "idle"]
    /\ cfg = [p \in Procs |-> [api |-> FALSE, openrouter |-> FALSE]]
    /\ history = [p \in Procs |-> <<>>]
    /\ loaded = [p \in Procs |-> "no"]
    /\ attempt = [p \in Procs |-> 0]
    /\ usd_jpy = [p \in Procs |-> None]
    /\ usd_cnh = [p \in Procs |-> None]
    /\ treasury_10y = [p \in Procs |-> None]
    /\ jpy_volatility = [p \in Procs |-> None]
    /\ final_data = [p \in Procs |-> NoSnapshot]
    /\ aiSeen = [p \in Procs |-> NoResponse]
    /\ wrote = [p \in Procs |-> "no"]
    /\ saved = [p \in Procs |-> "no"]
    /\ requests = [p \in Procs |-> 0]
    /\ saveOrder = <<>>
    /\ loadSeen = [p \in Procs |-> 0]
    /\ overlapped = FALSE

ApplySignal ==
    /\ call.fn = "determine_signal"
    /\ result = <<>>
    /\ result' = <<determine_signal(call.args[1], call.args[2], call.args[3])>>
    /\ UNCHANGED <<env, now, dataFile, historyFile, pc, cfg, history, loaded, attempt,
                   usd_jpy, usd_cnh, treasury_10y, jpy_volatility, final_data, aiSeen,
                   wrote, saved, requests, saveOrder, loadSeen, overlapped, call>>

ApplyScore ==
    /\ call.fn = "calculate_composite_risk_score"
    /\ result = <<>>
    /\ result' = <<calculate_composite_risk_score(call.args[1])>>
    /\ UNCHANGED <<env, now, dataFile, historyFile, pc, cfg, history, loaded, attempt,
                   usd_jpy, usd_cnh, treasury_10y, jpy_volatility, final_data, aiSeen,
                   wrote, saved, requests, saveOrder, loadSeen, overlapped, call>>

NextUnit == ApplySignal \/ ApplyScore

SpecUnit == InitUnit /\ [][NextUnit]_vars

-----------------------------------------------------------------------------
(* The claims.                                                             *)

Range(seq) == {seq[i] : i \in 1..Len(seq)}
\* The invocation has assembled its snapshot.
Assembled(p) == pc[p] \in {"write", "save", "done"}
\* The history as the invocation loaded it, before its own append.
LoadedHistory(p) ==
    IF pc[p] = "done" THEN SubSeq(history[p], 1, Len(history[p]) - 1) ELSE history[p]
Position(p) == CHOOSE i \in 1..Len(saveOrder) : saveOrder[i] = p
HasSaved(p) == \E i \in 1..Len(saveOrder) : saveOrder[i] = p
OldestFirst(doc) ==
    \A i \in 1..Len(doc), j \in 1..Len(doc) :
        i < j => doc[i].last_update < doc[j].last_update

\* C1: once a cycle's save has succeeded the persisted history holds at most
\* 30 snapshots, oldest first; it is the tail of what the last saving cycle
\* loaded followed by that cycle's snapshot, so its last entry is that
\* snapshot and it is the oldest entries that were dropped.
C1_HistoryKeepsNewest ==
    /\ historyFile.state = "ok" =>
          /\ Len(historyFile.doc) <= HISTORY_KEEP
          /\ OldestFirst(historyFile.doc)
    /\ (historyFile.state = "ok" /\ saveOrder # <<>>) =>
          LET q == saveOrder[Len(saveOrder)]
              full == history[q]
              doc == historyFile.doc
              dropped == Len(full) - Len(doc)
          IN  /\ Len(doc) = Min(HISTORY_KEEP, Len(full))
              /\ doc[Len(doc)] = final_data[q]
              /\ \A i \in 1..Len(doc) : doc[i] = full[i + dropped]

\* C1 witness: a cycle loaded 30 entries, appended its own, and the file now
\* holds 30: the oldest loaded entry is gone, the newest is the snapshot.
C1_Witness ==
    \E q \in Procs :
        /\ pc[q] = "done" /\ saved[q] = "ok"
        /\ Len(history[q]) = HISTORY_KEEP + 1
        /\ historyFile.state = "ok"
        /\ Len(historyFile.doc) = HISTORY_KEEP
        /\ historyFile.doc[1] = history[q][2]
        /\ history[q][1] \notin Range(historyFile.doc)
        /\ historyFile.doc[HISTORY_KEEP] = final_data[q]

\* C2: no failure of a metric fetch raises past the fetcher: no invocation
\* of update_tracing_data dies with an exception.
C2_FetchFailureNeverRaises ==
    \A p \in Procs : pc[p] # "raised"

\* The stored USD/JPY value of a snapshot when float() accepts it, else None.
StoredJpy(entry) ==
    LET ks == {k \in 1..Len(entry.metrics) :
                  /\ entry.metrics[k].name = JPY_NAME
                  /\ ParseFloat(entry.metrics[k].value) # None}
    IN  IF ks = {} THEN None
        ELSE ParseFloat(entry.metrics[CHOOSE k \in ks : TRUE].value)

ClaimedVolatility(current, hist) ==
    LET valid == {i \in 1..Len(hist) : StoredJpy(hist[i]) # None}
    IN  IF current = None \/ valid = {} THEN None
        ELSE LET i == CHOOSE i \in valid : \A j \in valid : j <= i
             IN  Some(Abs(current[1] - StoredJpy(hist[i])[1]))

\* C3: the volatility of a cycle is abs(current - v), v the stored value of
\* the most recent loaded snapshot whose value parses; it is absent exactly
\* when the loaded history has no such snapshot or current is absent.
C3_VolatilityAgainstLatestValid ==
    \A p \in Procs :
        Assembled(p) =>
            jpy_volatility[p] = ClaimedVolatility(usd_jpy[p], LoadedHistory(p))

Severity(signal) ==
    CASE signal = "CRITICAL SHOCK" -> 4
      [] signal = "HIGH STRESS + HIGH VOLATILITY" -> 3
      [] signal = "HIGH STRESS" -> 2
      [] signal = "RISING STRESS" -> 1
      [] OTHER -> 0

\* C4: for USD/JPY with a present value v and an optional volatility s the
\* signal is CRITICAL SHOCK when v >= 160.0; with 155.0 <= v < 160.0 it is
\* HIGH STRESS + HIGH VOLATILITY when s >= 2.0 and HIGH STRESS when s is
\* absent or below 2.0; RISING STRESS when 145.0 < v < 155.0; NORMAL when
\* v <= 145.0; and no higher value gets a less severe signal at that s.
C4_JpyLadder ==
    (/\ result # <<>>
     /\ call.fn = "determine_signal"
     /\ call.args[1] = JPY_NAME
     /\ call.args[2] # None) =>
        LET v == call.args[2][1]
            s == call.args[3]
            volatile == s # None /\ s[1] >= 200000
        IN  /\ v >= 16000000 => result[1] = "CRITICAL SHOCK"
            /\ (v >= 15500000 /\ v < 16000000 /\ volatile) =>
                    result[1] = "HIGH STRESS + HIGH VOLATILITY"
            /\ (v >= 15500000 /\ v < 16000000 /\ ~volatile) =>
                    result[1] = "HIGH STRESS"
            /\ (v > 14500000 /\ v < 15500000) => result[1] = "RISING STRESS"
            /\ v <= 14500000 => result[1] = "NORMAL"
            /\ \A higher \in SignalValues :
                    higher >= v =>
                        Severity(determine_signal(JPY_NAME, Some(higher), s))
                            >= Severity(result[1])

\* C4 witness: 159.9 with a volatility below 2.0 was classified HIGH STRESS.
C4_Witness ==
    /\ result = <<"HIGH STRESS">>
    /\ call.fn = "determine_signal"
    /\ call.args = <<JPY_NAME, Some(15990000), Some(199999)>>

ClaimedWeight(signal) ==
    CASE signal = "CRITICAL SHOCK" -> 100
      [] signal = "HIGH STRESS + HIGH VOLATILITY" -> 80
      [] signal = "HIGH STRESS" -> 60
      [] signal = "RISING STRESS" -> 30
      [] signal = "NORMAL" -> 0
      [] OTHER -> 0

RECURSIVE ClaimedSum(_, _)
ClaimedSum(metrics, k) ==
    IF k = 0 THEN 0
    ELSE ClaimedSum(metrics, k - 1)
            + (IF metrics[k].signal = "DATA ERROR" THEN 0
               ELSE ClaimedWeight(metrics[k].signal))

Observed(metrics) ==
    Cardinality({k \in 1..Len(metrics) : metrics[k].signal # "DATA ERROR"})

ClaimedLevel(sum, n) ==
    IF sum >= 70 * n THEN "CRITICAL"
    ELSE IF sum >= 45 * n THEN "ELEVATED"
    ELSE IF sum >= 20 * n THEN "MODERATE"
    ELSE "LOW"

ScoreCallDone ==
    /\ result # <<>>
    /\ call.fn = "calculate_composite_risk_score"

\* C5 as stated: the score is the unweighted mean of the weights over the
\* metrics that are not DATA ERROR (score 0 and UNKNOWN when there is none),
\* the level is derived from the mean, and the score lies in [0, 100].
C5_ScoreIsExactMean ==
    ScoreCallDone =>
        LET metrics == call.args[1]
            n == Observed(metrics)
            sum == ClaimedSum(metrics, Len(metrics))
        IN  IF n = 0
               THEN result[1].score = 0 /\ result[1].level = "UNKNOWN"
               ELSE /\ result[1].score * n = 10 * sum
                    /\ result[1].level = ClaimedLevel(sum, n)
                    /\ result[1].score >= 0 /\ result[1].score <= 1000

\* C5 amended: the score is that mean rounded to one decimal place (within
\* 0.05 of it); the level is derived from the unrounded mean.
C5_ScoreIsRoundedMean ==
    ScoreCallDone =>
        LET metrics == call.args[1]
            n == Observed(metrics)
            sum == ClaimedSum(metrics, Len(metrics))
        IN  IF n = 0
               THEN result[1].score = 0 /\ result[1].level = "UNKNOWN"
               ELSE /\ 2 * Abs(result[1].score * n - 10 * sum) <= n
                    /\ result[1].level = ClaimedLevel(sum, n)
                    /\ result[1].score >= 0 /\ result[1].score <= 1000

\* C5 witness: three observed metrics and one failed one, mean 130/3, were
\* scored 43.3 and MODERATE.
C5_Witness ==
    /\ ScoreCallDone
    /\ Len(call.args[1]) = 4
    /\ call.args[1][1].signal = "CRITICAL SHOCK"
    /\ call.args[1][2].signal = "DATA ERROR"
    /\ call.args[1][3].signal = "RISING STRESS"
    /\ call.args[1][4].signal = "NORMAL"
    /\ result[1].score = 433
    /\ result[1].level = "MODERATE"

\* C6: an invocation that finds no FINANCIAL_API_KEY aborts at once: it
\* issues no request, loads nothing, assembles no snapshot and attempts
\* neither the data.json write nor the history save.
C6_NoKeyNoCycle ==
    \A p \in Procs :
        (pc[p] # "idle" /\ ~cfg[p].api) =>
            /\ pc[p] = "aborted"
            /\ requests[p] = 0
            /\ loaded[p] = "no"
            /\ final_data[p] = NoSnapshot
            /\ wrote[p] = "no"
            /\ saved[p] = "no"
            /\ ~HasSaved(p)

\* C6 witness: an invocation without the key has aborted.
C6_Witness ==
    \E p \in Procs : pc[p] = "aborted" /\ ~cfg[p].api

\* C7: the data.json write is attempted before the history save; whether it
\* succeeds or fails the cycle goes on to append the same snapshot and save
\* the history; the save, failing or not, leaves data.json as it was and
\* ends the cycle; no persistence failure raises.
C7_State ==
    \A p \in Procs :
        /\ pc[p] \in {"save", "done"} => wrote[p] # "no"
        /\ pc[p] # "done" => saved[p] = "no"
        /\ wrote[p] # "no" => pc[p] \in {"save", "done"}
        /\ pc[p] = "done" =>
              /\ saved[p] # "no"
              /\ history[p][Len(history[p])] = final_data[p]
        /\ (pc[p] = "done" /\ saved[p] = "ok") => HasSaved(p)

C7_Step ==
    \A p \in Procs :
        /\ (pc[p] = "write" /\ pc'[p] # "write") =>
              /\ pc'[p] = "save"
              /\ historyFile' = historyFile
              /\ wrote'[p] = "ok" => dataFile' = FileOf(final_data[p])
        /\ (pc[p] = "save" /\ pc'[p] # "save") =>
              /\ pc'[p] = "done"
              /\ dataFile' = dataFile
              /\ saved'[p] = "ok" =>
                    /\ historyFile'.state = "ok"
                    /\ historyFile'.doc[Len(historyFile'.doc)] = final_data[p]

C7_TwoPhaseWrite == [][C7_Step /\ C7_State']_vars

\* C7 witness: the data.json write failed and the same cycle's snapshot is
\* the last entry of the saved history.
C7_Witness ==
    \E p \in Procs :
        /\ pc[p] = "done"
        /\ wrote[p] = "failed"
        /\ saved[p] = "ok"
        /\ historyFile.state = "ok"
        /\ historyFile.doc[Len(historyFile.doc)] = final_data[p]
        /\ dataFile # FileOf(final_data[p])

GenericText(text) == Len(text) = 3 /\ text[1] = "AI Analysis Failed: "
AiFailed(r) == ~(r.status = "200" /\ r.body = "chat"
                    /\ r.content \in {"object", "empty_object"})
Unparseable(r) ==
    /\ r.status = "200"
    /\ r.body = "chat"
    /\ r.content \in {"prose", "bad_object", "no_value", "two_objects"}

\* C8: when the insight request fails both fields hold the same placeholder,
\* chosen by category (401: auth, 429: rate limit, unparseable: parsing
\* failed, else generic) and the snapshot is assembled; text with no
\* embedded object or with one that is not valid JSON gives the parsing
\* failed placeholder, not the generic one.
C8_InsightFailureCategorised ==
    \A p \in Procs :
        (Assembled(p) /\ cfg[p].openrouter /\ AiFailed(aiSeen[p])) =>
            LET r == aiSeen[p]
                ins == final_data[p].ai_insights
            IN  /\ ins.stock_picks = ins.tasi_opportunities
                /\ r.status = "401" => ins.stock_picks = AUTH_TEXT
                /\ r.status = "429" => ins.stock_picks = RATE_LIMIT_TEXT
                /\ Unparseable(r) => ins.stock_picks = PARSING_TEXT
                /\ ins.stock_picks \in {AUTH_TEXT, RATE_LIMIT_TEXT, PARSING_TEXT}
                      \/ GenericText(ins.stock_picks)

\* C9, first half: when a cycle's save succeeds, the snapshot of every cycle
\* that saved after this one loaded is not in the history it persists.
C9_LostUpdate ==
    \A q \in Procs :
        (pc[q] = "save" /\ pc'[q] = "done" /\ saved'[q] = "ok") =>
            \A p \in Procs \ {q} :
                (HasSaved(p) /\ Position(p) > loadSeen[q]) =>
                    final_data[p] \notin Range(historyFile'.doc)

\* The snapshot of the i-th successful save sits i-th from the end of the
\* saves in the persisted history, unless 30 or more saves followed it.
SavedSnapshotsInPlace ==
    /\ historyFile.state = "ok"
    /\ \A i \in 1..Len(saveOrder) :
          LET later == Len(saveOrder) - i
          IN  later < HISTORY_KEEP =>
                /\ Len(historyFile.doc) > later
                /\ historyFile.doc[Len(historyFile.doc) - later]
                      = final_data[saveOrder[i]]

\* C9, second half as stated: with no overlap, every completed cycle's
\* snapshot is in the persisted history until the cap evicts it.
C9_SerialKeepsCompleted ==
    ~overlapped =>
        /\ \A p \in Procs : pc[p] = "done" => HasSaved(p)
        /\ saveOrder # <<>> => SavedSnapshotsInPlace

\* C9, second half amended: with no overlap and no failed load or save of
\* the history, every completed cycle's snapshot is in the persisted
\* history until the cap evicts it.
C9_SerialKeepsSaved ==
    (/\ ~overlapped
     /\ \A p \in Procs : loaded[p] # "failed" /\ saved[p] # "failed") =>
        /\ \A p \in Procs : pc[p] = "done" => HasSaved(p)
        /\ saveOrder # <<>> => SavedSnapshotsInPlace

Fetched(p) == <<usd_jpy[p], usd_cnh[p], Some(MOVE_PROXY_PLACEHOLDER), treasury_10y[p]>>

\* C10: in every assembled snapshot, for each metric, the value is the
\* DATA ERROR marker iff the signal is DATA ERROR iff the fetch returned
\* None; a fetched number, 0 included, is stored as that number.
C10_ObservedConsistently ==
    \A p \in Procs :
        Assembled(p) =>
            \A k \in 1..Len(final_data[p].metrics) :
                LET m == final_data[p].metrics[k]
                    f == Fetched(p)[k]
                IN  /\ (m.value = DATA_ERROR) <=> (m.signal = "DATA ERROR")
                    /\ (m.signal = "DATA ERROR") <=> (f = None)
                    /\ f # None =>
                          m.value \in {Format4(f[1]), Format2(f[1]), Format2Pct(f[1])}

=============================================================================
